---- MODULE Spec2Model ----
(***************************************************************************)
(* The portable ChaCha block function of chacha20/src/block/soft.rs:       *)
(* Block::new, Block::generate, Block::apply_keystream, counter_setup,     *)
(* rounds and quarter_round.                                               *)
(*                                                                         *)
(* A u32 is kept as two 16-bit halves [hi, lo] (TLC's integers are 32-bit  *)
(* signed), a u64 counter as four 16-bit limbs, least significant first,   *)
(* and a byte buffer as a sequence of 0..255.  All arithmetic is done at   *)
(* the full 32-bit width.                                                  *)
(***************************************************************************)
EXTENDS Integers, Sequences, FiniteSets, TLC

VARIABLES
    debug_assertions,   \* the build: TRUE when debug_assert! is compiled in
    engine,             \* <<>> before Block::new returned, else <<[state, rounds]>>
    args,               \* the arguments Block::new was called with
    output,             \* the caller's buffer, as the last call left it
    panicked,           \* TRUE once a call has panicked
    last,               \* the last call: op, counter, the buffer passed, steps run
    prev,               \* the call before it: op, counter, the buffer passed
    calls,              \* number of generate / apply_keystream calls made
    qstate,             \* quarter_round's caller: the 16-word array it passes
    qcall               \* quarter_round's caller: the call made on it

vars == <<debug_assertions, engine, args, output, panicked, last, prev, calls,
          qstate, qcall>>

(***************************************************************************)
(* Sizes and constants of the crate root (crate::{BLOCK_SIZE, CONSTANTS,   *)
(* IV_SIZE, KEY_SIZE, STATE_WORDS}).                                       *)
(***************************************************************************)
BLOCK_SIZE == 64

KEY_SIZE == 32

IV_SIZE == 8

STATE_WORDS == 16

BUFFER_SIZE == BLOCK_SIZE

U32(hi, lo) == [hi |-> hi, lo |-> lo]

\* "expand 32-byte k": 0x61707865, 0x3320646e, 0x79622d32, 0x6b206574
ChaChaConstants ==
    <<U32(24944, 30821), U32(13088, 25710), U32(31074, 11570), U32(27424, 25972)>>

(***************************************************************************)
(* u32 primitives.                                                         *)
(***************************************************************************)
RECURSIVE XorBits(_, _, _)
XorBits(p, q, n) ==
    IF n = 0 THEN 0
    ELSE (((p % 2) + (q % 2)) % 2) + (2 * XorBits(p \div 2, q \div 2, n - 1))

\* the exclusive-or of two bytes p, q, at index 256 * p + q
XorTab == [i \in 0..65535 |-> XorBits(i \div 256, i % 256, 8)]

XorByte(p, q) == XorTab[(256 * p) + q]

Xor16(p, q) ==
    (256 * XorByte(p \div 256, q \div 256)) + XorByte(p % 256, q % 256)

\* u32 ^ u32
BitXor(p, q) == [hi |-> Xor16(p.hi, q.hi), lo |-> Xor16(p.lo, q.lo)]

\* faulty variant: a sum that overflows saturates at 0xffff_ffff
wrapping_add_saturating(p, q) ==
    IF p.hi + q.hi + ((p.lo + q.lo) \div 65536) >= 65536
    THEN [hi |-> 65535, lo |-> 65535]
    ELSE [hi |-> p.hi + q.hi + ((p.lo + q.lo) \div 65536), lo |-> (p.lo + q.lo) % 65536]

\* u32::wrapping_add
wrapping_add(p, q) ==
    LET s == p.lo + q.lo
    IN  [hi |-> (p.hi + q.hi + (s \div 65536)) % 65536, lo |-> s % 65536]

\* u32::rotate_left, 0 <= n < 32
rotate_left(p, n) ==
    LET q == IF n >= 16 THEN [hi |-> p.lo, lo |-> p.hi] ELSE p
        k == n % 16
    IN  [hi |-> ((q.hi * (2 ^ k)) % 65536) + (q.lo \div (2 ^ (16 - k))),
         lo |-> ((q.lo * (2 ^ k)) % 65536) + (q.hi \div (2 ^ (16 - k)))]

\* faulty variant: the bytes are read most significant first
from_be_bytes(b) ==
    [hi |-> (256 * b[1]) + b[2], lo |-> (256 * b[3]) + b[4]]

\* u32::from_le_bytes of a 4-byte chunk
from_le_bytes(b) ==
    [lo |-> b[1] + (256 * b[2]), hi |-> b[3] + (256 * b[4])]

\* u32::to_le_bytes
to_le_bytes(w) ==
    <<w.lo % 256, w.lo \div 256, w.hi % 256, w.hi \div 256>>

\* (counter & 0xffff_ffff) as u32
CounterLow(counter) == [lo |-> counter[1], hi |-> counter[2]]

\* ((counter >> 32) & 0xffff_ffff) as u32
CounterHigh(counter) == [lo |-> counter[3], hi |-> counter[4]]

(***************************************************************************)
(* Slices.                                                                 *)
(***************************************************************************)
\* number of chunks slice.chunks(4) yields for a slice of n elements
NumChunks(n) == (n + 3) \div 4

\* the i-th (from 0) chunk of slice.chunks(4): 4 elements, the last maybe fewer
Chunk(s, i) ==
    SubSeq(s, (4 * i) + 1, IF (4 * i) + 4 <= Len(s) THEN (4 * i) + 4 ELSE Len(s))

(***************************************************************************)
(* quarter_round.  A machine m is the array being worked on and the steps  *)
(* executed so far.                                                        *)
(***************************************************************************)
Machine(state, path) == [state |-> state, path |-> path]

\* e, once v has been evaluated: arguments are values before a call starts
Strict(v, e) == IF v = v THEN e ELSE e

\* state[x] = state[x].wrapping_add(state[y])
AddStep(m, x, y) ==
    Machine([m.state EXCEPT ![x] = wrapping_add(m.state[x], m.state[y])],
            Append(m.path, <<"add", x, y>>))

\* state[x] ^= state[y]
XorStep(m, x, y) ==
    Machine([m.state EXCEPT ![x] = BitXor(m.state[x], m.state[y])],
            Append(m.path, <<"xor", x, y>>))

\* state[x] = state[x].rotate_left(n)
RotlStep(m, x, n) ==
    Machine([m.state EXCEPT ![x] = rotate_left(m.state[x], n)],
            Append(m.path, <<"rotl", x, n>>))

\* the array as s left it, after the steps of m and then those of s
Steps(m, s) == Machine(s.state, m.path \o s.path)

\* faulty variant: the first addition is skipped when state[b] is zero
quarter_round_branch(a, b, c, d, m) ==
    Strict(m,
    LET s0  == Machine(m.state, <<>>)
        s1  == IF m.state[b] = U32(0, 0) THEN s0 ELSE AddStep(s0, a, b)
        s2  == XorStep(s1, d, a)
        s3  == RotlStep(s2, d, 16)
        s4  == AddStep(s3, c, d)
        s5  == XorStep(s4, b, c)
        s6  == RotlStep(s5, b, 12)
        s7  == AddStep(s6, a, b)
        s8  == XorStep(s7, d, a)
        s9  == RotlStep(s8, d, 8)
        s10 == AddStep(s9, c, d)
        s11 == XorStep(s10, b, c)
        s12 == RotlStep(s11, b, 7)
    IN  Steps(m, s12))

quarter_round(a, b, c, d, m) ==
    Strict(m,
    LET s0  == Machine(m.state, <<>>)
        s1  == AddStep(s0, a, b)
        s2  == XorStep(s1, d, a)
        s3  == RotlStep(s2, d, 16)
        s4  == AddStep(s3, c, d)
        s5  == XorStep(s4, b, c)
        s6  == RotlStep(s5, b, 12)
        s7  == AddStep(s6, a, b)
        s8  == XorStep(s7, d, a)
        s9  == RotlStep(s8, d, 8)
        s10 == AddStep(s9, c, d)
        s11 == XorStep(s10, b, c)
        s12 == RotlStep(s11, b, 7)
    IN  Steps(m, s12))

(***************************************************************************)
(* Block.  An engine is [state, rounds].                                   *)
(***************************************************************************)
ValidRounds(r) == r = 8 \/ r = 12 \/ r = 20

\* faulty variant: the assertion accepts every even round count
Block_new_even(key, iv, r) ==
    IF r % 2 # 0
    THEN <<>>
    ELSE LET zeroed == [i \in 0..(STATE_WORDS - 1) |-> U32(0, 0)]
             s1 == [i \in 0..(STATE_WORDS - 1) |->
                        IF i < 4 THEN ChaChaConstants[i + 1] ELSE zeroed[i]]
             s2 == [i \in 0..(STATE_WORDS - 1) |->
                        IF i >= 4 /\ i < 4 + NumChunks(Len(key))
                        THEN from_le_bytes(Chunk(key, i - 4))
                        ELSE s1[i]]
             s3 == [s2 EXCEPT ![12] = U32(0, 0),
                              ![13] = U32(0, 0),
                              ![14] = from_le_bytes(SubSeq(iv, 1, 4)),
                              ![15] = from_le_bytes(SubSeq(iv, 5, Len(iv)))]
         IN  <<[state |-> s3, rounds |-> r]>>

\* Block::new: <<>> when the assertion panics, else <<the engine>>
Block_new(key, iv, r) ==
    IF ~ValidRounds(r)
    THEN <<>>
    ELSE LET zeroed == [i \in 0..(STATE_WORDS - 1) |-> U32(0, 0)]
             s1 == [i \in 0..(STATE_WORDS - 1) |->
                        IF i < 4 THEN ChaChaConstants[i + 1] ELSE zeroed[i]]
             s2 == [i \in 0..(STATE_WORDS - 1) |->
                        IF i >= 4 /\ i < 4 + NumChunks(Len(key))
                        THEN from_le_bytes(Chunk(key, i - 4))
                        ELSE s1[i]]
             s3 == [s2 EXCEPT ![12] = U32(0, 0),
                              ![13] = U32(0, 0),
                              ![14] = from_le_bytes(SubSeq(iv, 1, 4)),
                              ![15] = from_le_bytes(SubSeq(iv, 5, Len(iv)))]
         IN  <<[state |-> s3, rounds |-> r]>>

\* faulty variant: the counter is added to the stored counter words
counter_setup_accumulate(e, counter) ==
    [e EXCEPT !.state[12] = wrapping_add(@, CounterLow(counter)),
              !.state[13] = wrapping_add(@, CounterHigh(counter))]

\* Block::counter_setup
counter_setup(e, counter) ==
    [e EXCEPT !.state[12] = CounterLow(counter),
              !.state[13] = CounterHigh(counter)]

\* the body of the round loop: four column rounds, four diagonal rounds
RoundBody(m) ==
    LET c1 == quarter_round(0, 4, 8, 12, m)
        c2 == quarter_round(1, 5, 9, 13, c1)
        c3 == quarter_round(2, 6, 10, 14, c2)
        c4 == quarter_round(3, 7, 11, 15, c3)
        d1 == quarter_round(0, 5, 10, 15, c4)
        d2 == quarter_round(1, 6, 11, 12, d1)
        d3 == quarter_round(2, 7, 8, 13, d2)
        d4 == quarter_round(3, 4, 9, 14, d3)
    IN  d4

\* for _ in 0..n: each pass is evaluated before the next starts
RECURSIVE RoundLoop(_, _)
RoundLoop(n, m) ==
    IF n = 0
    THEN m
    ELSE Strict(m, RoundLoop(n - 1, RoundBody(m)))

\* for (s1, s0) in state.iter_mut().zip(&self.state): *s1 = s1.wrapping_add(*s0)
FeedForward(m, base) ==
    Machine([i \in 0..(STATE_WORDS - 1) |-> wrapping_add(m.state[i], base[i])],
            m.path \o [i \in 1..STATE_WORDS |-> <<"feed", i - 1>>])

\* faulty variant: one pass of the loop per round, not per two rounds
rounds_per_round(e, m) == FeedForward(RoundLoop(e.rounds, m), e.state)

\* Block::rounds, on engine e and the caller's array in m
rounds(e, m) == FeedForward(RoundLoop(e.rounds \div 2, m), e.state)

\* faulty variant: the rounds run on self.state itself, not on a copy of it
KeystreamRun_in_place(e, counter) ==
    [self |-> e,
     engine |-> [e EXCEPT !.state =
                    rounds(counter_setup(e, counter),
                           Machine(counter_setup(e, counter).state, <<>>)).state],
     m |-> rounds(counter_setup(e, counter),
                  Machine(counter_setup(e, counter).state,
                          <<<<"counter_setup", 0, 0>>>>))]

\* self.counter_setup(counter); let mut state = self.state; self.rounds(&mut state)
KeystreamRun(e, counter) ==
    LET e1 == counter_setup(e, counter)
    IN  [self |-> e,
         engine |-> e1,
         m |-> rounds(e1, Machine(e1.state, <<<<"counter_setup", 0, 0>>>>))]

\* the outcome of a call: the engine and the buffer as it leaves them
Outcome(e, out, p, path) ==
    [engine |-> e, output |-> out, panicked |-> p, path |-> path]

\* faulty variant: the last byte of the chunk is not copied
CopyFromSlice_short(out, i, bytes) ==
    [j \in 1..Len(out) |->
        IF j > 4 * i /\ j < (4 * i) + 4 THEN bytes[j - (4 * i)] ELSE out[j]]

\* chunk i of out overwritten with bytes
CopyFromSlice(out, i, bytes) ==
    [j \in 1..Len(out) |->
        IF j > 4 * i /\ j <= (4 * i) + 4 THEN bytes[j - (4 * i)] ELSE out[j]]

\* faulty variant: the keystream byte is added to the buffer's, not xored into it
XorZip_add(out, i, bytes, n) ==
    [j \in 1..Len(out) |->
        IF j > 4 * i /\ j <= (4 * i) + n
        THEN (out[j] + bytes[j - (4 * i)]) % 256
        ELSE out[j]]

\* the first n bytes of chunk i of out xored with bytes
XorZip(out, i, bytes, n) ==
    [j \in 1..Len(out) |->
        IF j > 4 * i /\ j <= (4 * i) + n
        THEN XorByte(out[j], bytes[j - (4 * i)])
        ELSE out[j]]

\* for (i, chunk) in output.chunks_mut(4).enumerate():
\*     chunk.copy_from_slice(&state[i].to_le_bytes())
RECURSIVE GenerateChunks(_, _, _)
GenerateChunks(r, state, i) ==
    IF i >= NumChunks(Len(r.output))
    THEN r
    ELSE IF i >= STATE_WORDS
    THEN Outcome(r.engine, r.output, TRUE, Append(r.path, <<"index_panic", i, 0>>))
    ELSE IF Len(Chunk(r.output, i)) # 4
    THEN Outcome(r.engine, r.output, TRUE,
                 Append(r.path, <<"copy_panic", i, Len(Chunk(r.output, i))>>))
    ELSE GenerateChunks(
             Outcome(r.engine,
                     CopyFromSlice(r.output, i, to_le_bytes(state[i])),
                     FALSE,
                     Append(r.path, <<"copy", i, 4>>)),
             state, i + 1)

\* for (i, chunk) in output.chunks_mut(4).enumerate():
\*     for (a, b) in chunk.iter_mut().zip(&state[i].to_le_bytes()): *a ^= *b
RECURSIVE ApplyChunks(_, _, _)
ApplyChunks(r, state, i) ==
    IF i >= NumChunks(Len(r.output))
    THEN r
    ELSE IF i >= STATE_WORDS
    THEN Outcome(r.engine, r.output, TRUE, Append(r.path, <<"index_panic", i, 0>>))
    ELSE ApplyChunks(
             Outcome(r.engine,
                     XorZip(r.output, i, to_le_bytes(state[i]), Len(Chunk(r.output, i))),
                     FALSE,
                     Append(r.path, <<"xor", i, Len(Chunk(r.output, i))>>)),
             state, i + 1)

\* faulty variant: only a buffer that is too short fails the assertion
LengthAssertFails_short(out, dbg) == dbg /\ Len(out) < BUFFER_SIZE

\* debug_assert_eq!(output.len(), BUFFER_SIZE): TRUE when it panics
LengthAssertFails(out, dbg) == dbg /\ Len(out) # BUFFER_SIZE

\* Block::generate, k being KeystreamRun(self, counter), evaluated when reached
generate(k, out, dbg) ==
    IF LengthAssertFails(out, dbg)
    THEN Outcome(k.self, out, TRUE, <<<<"debug_assert_eq_panic", 0, 0>>>>)
    ELSE GenerateChunks(Outcome(k.engine, out, FALSE, k.m.path), k.m.state, 0)

\* Block::apply_keystream, k being KeystreamRun(self, counter)
apply_keystream(k, out, dbg) ==
    IF LengthAssertFails(out, dbg)
    THEN Outcome(k.self, out, TRUE, <<<<"debug_assert_eq_panic", 0, 0>>>>)
    ELSE ApplyChunks(Outcome(k.engine, out, FALSE, k.m.path), k.m.state, 0)

(***************************************************************************)
(* The inputs the callers draw from.                                       *)
(***************************************************************************)
\* most calls a caller makes on one engine
MaxCalls == 2

ZeroKey == [i \in 1..KEY_SIZE |-> 0]

\* 00 01 02 .. 1f
SeqKey == [i \in 1..KEY_SIZE |-> i - 1]

ZeroIv == [i \in 1..IV_SIZE |-> 0]

SeqIv == [i \in 1..IV_SIZE |-> 255 - (16 * i)]

TestKeyIv == {[key |-> ZeroKey, iv |-> ZeroIv], [key |-> SeqKey, iv |-> SeqIv]}

TestRounds == {0, 7, 8, 9, 12, 20, 21}

\* 0 and 0x89abcdef_01234567
TestCounters == {<<0, 0, 0, 0>>, <<17767, 291, 52719, 35243>>}

ZeroBuffer(n) == [i \in 1..n |-> 0]

PatternBuffer(n) == [i \in 1..n |-> ((37 * i) + 11) % 256]

\* the buffers a caller starts with
InitialBuffers == {ZeroBuffer(BUFFER_SIZE), PatternBuffer(BUFFER_SIZE)}

\* the buffers of another length a caller may pass instead of its own
TestBuffers == {PatternBuffer(BUFFER_SIZE - 1), PatternBuffer(BUFFER_SIZE + 1)}

NoCounter == <<0, 0, 0, 0>>

NoCall ==
    [op |-> "none", counter |-> NoCounter, before |-> <<>>, reused |-> FALSE,
     path |-> <<>>]

NoArgs == [key |-> <<>>, iv |-> <<>>, rounds |-> 0]

NoQCall == [a |-> 0, b |-> 0, c |-> 0, d |-> 0, n |-> 0, before |-> <<>>]

ZeroState == [i \in 0..(STATE_WORDS - 1) |-> U32(0, 0)]

(***************************************************************************)
(* The engine's callers.                                                   *)
(***************************************************************************)
Init ==
    /\ debug_assertions \in BOOLEAN
    /\ engine = <<>>
    /\ args = NoArgs
    /\ output \in InitialBuffers
    /\ panicked = FALSE
    /\ last = NoCall
    /\ prev = NoCall
    /\ calls = 0
    /\ qstate = ZeroState
    /\ qcall = NoQCall

\* Block::new(key, iv, rounds)
New ==
    /\ engine = <<>>
    /\ ~panicked
    /\ \E k \in TestKeyIv, r \in TestRounds :
         LET e == Block_new(k.key, k.iv, r)
         IN  /\ engine' = e
             /\ panicked' = (e = <<>>)
             /\ args' = [key |-> k.key, iv |-> k.iv, rounds |-> r]
             /\ last' = [NoCall EXCEPT !.op = "new"]
    /\ UNCHANGED <<debug_assertions, output, prev, calls, qstate, qcall>>

\* what a call leaves behind
Returned(r, op, counter, buf) ==
    /\ engine' = <<r.engine>>
    /\ output' = r.output
    /\ panicked' = r.panicked
    /\ prev' = [last EXCEPT !.path = <<>>]
    /\ last' = [op |-> op, counter |-> counter, before |-> buf,
                reused |-> (buf = output), path |-> r.path]
    /\ calls' = calls + 1
    /\ UNCHANGED <<debug_assertions, args, qstate, qcall>>

\* engine.generate(counter, buf), buf the caller's buffer or a new one
Generate ==
    /\ engine # <<>>
    /\ ~panicked
    /\ calls < MaxCalls
    /\ \E counter \in TestCounters :
         \E k \in {KeystreamRun(engine[1], counter)},
            buf \in TestBuffers \cup {output} :
               Returned(generate(k, buf, debug_assertions), "generate", counter, buf)

\* engine.apply_keystream(counter, buf)
ApplyKeystream ==
    /\ engine # <<>>
    /\ ~panicked
    /\ calls < MaxCalls
    /\ \E counter \in TestCounters :
         \E k \in {KeystreamRun(engine[1], counter)},
            buf \in TestBuffers \cup {output} :
               Returned(apply_keystream(k, buf, debug_assertions),
                        "apply_keystream", counter, buf)

Next == New \/ Generate \/ ApplyKeystream

Spec == Init /\ [][Next]_vars

\* RFC 8439 2.3.2-style vector: 20 rounds, zero key, zero nonce, counter 0
ZeroKeyBlock ==
    <<118, 184, 224, 173, 160, 241, 61, 144, 64, 93, 106, 229, 83, 134, 189, 40,
      189, 210, 25, 184, 160, 141, 237, 26, 168, 54, 239, 204, 139, 119, 13, 199,
      218, 65, 89, 124, 81, 87, 72, 141, 119, 36, 224, 63, 184, 216, 74, 55,
      106, 67, 184, 244, 21, 24, 161, 28, 195, 135, 182, 105, 178, 238, 101, 134>>

SeesZeroKeyBlock ==
    /\ last.op = "generate"
    /\ args.key = ZeroKey /\ args.iv = ZeroIv /\ args.rounds = 20
    /\ last.counter = <<0, 0, 0, 0>>
    /\ output = ZeroKeyBlock

(***************************************************************************)
(* What the properties speak of.                                           *)
(***************************************************************************)
IsCall(c) == c.op = "generate" \/ c.op = "apply_keystream"

\* the 32-bit word whose little-endian bytes are b[4i+1 .. 4i+4]
LittleEndianWord(b, i) ==
    U32(b[(4 * i) + 3] + (256 * b[(4 * i) + 4]), b[(4 * i) + 1] + (256 * b[(4 * i) + 2]))

\* "expand 32-byte k" in ASCII
ExpandBytes ==
    <<101, 120, 112, 97, 110, 100, 32, 51, 50, 45, 98, 121, 116, 101, 32, 107>>

\* c mod 2^32 and floor(c / 2^32) mod 2^32 of a counter c given by its limbs
LowHalf(c) == U32(c[2], c[1])

HighHalf(c) == U32(c[4], c[3])

InRange(w) == w.hi \in 0..65535 /\ w.lo \in 0..65535

(***************************************************************************)
(* C4: Block::new returns an engine exactly when rounds is 8, 12 or 20;    *)
(* for every other round count it panics and no engine exists.             *)
(***************************************************************************)
RoundCountBoundary ==
    (args # NoArgs) =>
        /\ (engine # <<>>) <=> (args.rounds \in {8, 12, 20})
        /\ (args.rounds \notin {8, 12, 20}) => (panicked /\ engine = <<>>)
        /\ (last.op = "new" /\ args.rounds \in {8, 12, 20}) => ~panicked

RoundCountRejected ==
    /\ last.op = "new"
    /\ args.rounds = 9
    /\ panicked
    /\ engine = <<>>

(***************************************************************************)
(* C5: the engine Block::new returns holds the four constants in words     *)
(* 0..3, the little-endian words of the key in words 4..11, zero in words  *)
(* 12 and 13, the little-endian words of the nonce in words 14 and 15, and *)
(* the round count it was given.                                           *)
(***************************************************************************)
InitializerLayout ==
    (last.op = "new" /\ engine # <<>>) =>
        /\ \A i \in 0..3 : engine[1].state[i] = LittleEndianWord(ExpandBytes, i)
        /\ engine[1].state[0] = U32(24944, 30821)
        /\ engine[1].state[1] = U32(13088, 25710)
        /\ engine[1].state[2] = U32(31074, 11570)
        /\ engine[1].state[3] = U32(27424, 25972)
        /\ \A i \in 0..7 : engine[1].state[4 + i] = LittleEndianWord(args.key, i)
        /\ engine[1].state[12] = U32(0, 0)
        /\ engine[1].state[13] = U32(0, 0)
        /\ engine[1].state[14] = LittleEndianWord(args.iv, 0)
        /\ engine[1].state[15] = LittleEndianWord(args.iv, 1)
        /\ engine[1].rounds = args.rounds
        /\ DOMAIN engine[1].state = 0..15

\* key 00 01 02 03 .. gives word 4 = 0x03020100 and word 11 = 0x1f1e1d1c
InitializedFromSeqKey ==
    /\ last.op = "new"
    /\ engine # <<>>
    /\ args.key = SeqKey
    /\ args.rounds = 12
    /\ engine[1].state[4] = U32(770, 256)
    /\ engine[1].state[11] = U32(7966, 7452)
    /\ engine[1].state[14] = U32(49103, 57327)

KeyScheduleFixed ==
    (engine # <<>>) =>
        /\ \A i \in 0..3 : engine[1].state[i] = LittleEndianWord(ExpandBytes, i)
        /\ \A i \in 0..7 : engine[1].state[4 + i] = LittleEndianWord(args.key, i)
        /\ engine[1].state[14] = LittleEndianWord(args.iv, 0)
        /\ engine[1].state[15] = LittleEndianWord(args.iv, 1)
        /\ engine[1].rounds = args.rounds

\* the counter words a call that stopped at the length assertion left alone
CounterWordsBefore ==
    IF IsCall(prev) THEN <<LowHalf(prev.counter), HighHalf(prev.counter)>>
    ELSE <<U32(0, 0), U32(0, 0)>>

CounterFrame ==
    (engine # <<>> /\ IsCall(last)) =>
        IF debug_assertions /\ Len(last.before) # 64
        THEN <<engine[1].state[12], engine[1].state[13]>> = CounterWordsBefore
        ELSE /\ engine[1].state[12] = LowHalf(last.counter)
             /\ engine[1].state[13] = HighHalf(last.counter)

(***************************************************************************)
(* C7: in every state the stored words 0..3 are the constants, 4..11 the   *)
(* key words, 14..15 the nonce words and the round count is the one given  *)
(* at construction; a call with counter c leaves the low half of c in word *)
(* 12 and the high half in word 13 and changes nothing else.               *)
(***************************************************************************)
KeyScheduleInvariant == KeyScheduleFixed /\ CounterFrame

\* two calls, the second with counter 0x89abcdef_01234567
CounterWordsSet ==
    /\ calls = 2
    /\ IsCall(prev) /\ prev.counter = <<0, 0, 0, 0>>
    /\ last.op = "apply_keystream"
    /\ ~panicked
    /\ args.key = SeqKey
    /\ engine[1].state[12] = U32(291, 17767)
    /\ engine[1].state[13] = U32(35243, 52719)

AppliedTwice ==
    /\ prev.op = "apply_keystream"
    /\ last.op = "apply_keystream"
    /\ prev.counter = last.counter
    /\ Len(prev.before) = 64
    /\ last.reused
    /\ ~panicked

(***************************************************************************)
(* C1: apply_keystream called twice with the same counter on the same      *)
(* 64-byte buffer leaves the buffer as it was before the first call.       *)
(***************************************************************************)
XorInvolution == AppliedTwice => output = prev.before

AppliedTwiceToPattern ==
    /\ AppliedTwice
    /\ prev.before = PatternBuffer(64)
    /\ last.before # PatternBuffer(64)
    /\ last.counter = <<17767, 291, 52719, 35243>>
    /\ args.rounds = 8

AppliedToZeros ==
    /\ last.op = "apply_keystream"
    /\ last.before = ZeroBuffer(64)
    /\ ~panicked

(***************************************************************************)
(* C2: apply_keystream on an all-zero 64-byte buffer leaves in it the      *)
(* bytes generate writes for the same counter, whatever the buffer passed  *)
(* to generate held before.                                                *)
(***************************************************************************)
GenerateApplyEquivalence ==
    AppliedToZeros =>
        \A k \in {KeystreamRun(engine[1], last.counter)} :
            \A out \in {ZeroBuffer(64), PatternBuffer(64), output} :
                /\ generate(k, out, debug_assertions).output = output
                /\ ~generate(k, out, debug_assertions).panicked

AppliedToZerosSeen ==
    /\ AppliedToZeros
    /\ last.counter = <<17767, 291, 52719, 35243>>
    /\ args.rounds = 12
    /\ args.key = SeqKey
    /\ output # ZeroBuffer(64)

(***************************************************************************)
(* C3, as claimed: a call with a buffer that is not 64 bytes long panics   *)
(* with the buffer untouched, in every build; a 64-byte buffer succeeds.   *)
(***************************************************************************)
BufferLengthFatal ==
    IsCall(last) =>
        IF Len(last.before) # 64
        THEN panicked /\ output = last.before
        ELSE ~panicked

(***************************************************************************)
(* C3, amended: in a build with debug assertions a call with a buffer that *)
(* is not 64 bytes long panics at once, with the buffer and the engine     *)
(* untouched; in every build a call with a 64-byte buffer succeeds.        *)
(***************************************************************************)
BufferLengthFatalInDebug ==
    IsCall(last) =>
        /\ (debug_assertions /\ Len(last.before) # 64) =>
               /\ panicked
               /\ output = last.before
               /\ last.path = <<<<"debug_assert_eq_panic", 0, 0>>>>
               /\ <<engine[1].state[12], engine[1].state[13]>> = CounterWordsBefore
        /\ (Len(last.before) = 64) => (~panicked /\ Len(output) = 64)

LongBufferRejectedInDebug ==
    /\ debug_assertions
    /\ last.op = "generate"
    /\ Len(last.before) = 65
    /\ panicked
    /\ output = last.before

XorBuffers(x, y) == [j \in 1..Len(x) |-> XorByte(x[j], y[j])]

\* the keystream block the last call produced, seen from the caller's buffer
ObservedBlock ==
    IF last.op = "generate" THEN output ELSE XorBuffers(output, last.before)

Completed == IsCall(last) /\ ~panicked /\ Len(last.before) = 64

\* the block a new engine writes for each key, nonce, round count and counter
FreshBlocks ==
    [k \in TestKeyIv, r \in {8, 12, 20}, c \in TestCounters |->
        generate(KeystreamRun(Block_new(k.key, k.iv, r)[1], c),
                 ZeroBuffer(64), FALSE).output]

(***************************************************************************)
(* C6: the keystream block a call produces for counter c is the block a    *)
(* newly constructed engine with the same key, nonce and round count       *)
(* produces for c, whatever calls were made before.                        *)
(***************************************************************************)
HistoryIndependence ==
    Completed =>
        ObservedBlock = FreshBlocks[[key |-> args.key, iv |-> args.iv],
                                    args.rounds, last.counter]

AfterAnotherCounter ==
    /\ Completed
    /\ calls = 2
    /\ IsCall(prev)
    /\ prev.counter = <<17767, 291, 52719, 35243>>
    /\ last.counter = <<0, 0, 0, 0>>
    /\ last.op = "apply_keystream"

OtherKey == [i \in 1..KEY_SIZE |-> 255]

OtherIv == [i \in 1..IV_SIZE |-> 170]

OtherCounter == <<65535, 65535, 65535, 65535>>

OtherBuffer(n) == [i \in 1..n |-> 85]

\* the steps of the same call made on other values
OtherRun(op, r, n, dbg) ==
    IF op = "generate"
    THEN generate(KeystreamRun(Block_new(OtherKey, OtherIv, r)[1], OtherCounter),
                  OtherBuffer(n), dbg).path
    ELSE apply_keystream(KeystreamRun(Block_new(OtherKey, OtherIv, r)[1], OtherCounter),
                         OtherBuffer(n), dbg).path

OtherRuns ==
    [op \in {"generate", "apply_keystream"}, r \in {8, 12, 20}, n \in 63..65,
     dbg \in BOOLEAN |-> OtherRun(op, r, n, dbg)]

(***************************************************************************)
(* C8: the steps a call executes depend only on the operation, the round   *)
(* count, the buffer length and the build, never on the key, the nonce,    *)
(* the counter, the state words or the buffer bytes.                       *)
(***************************************************************************)
ConstantControlFlow ==
    IsCall(last) =>
        last.path = OtherRuns[last.op, args.rounds, Len(last.before), debug_assertions]

RanOnZeroKey ==
    /\ last.op = "apply_keystream"
    /\ ~panicked
    /\ calls = 2
    /\ args.key = ZeroKey
    /\ args.rounds = 20
    /\ Len(last.before) = 64
    /\ last.counter = <<17767, 291, 52719, 35243>>
    /\ Len(last.path) > 64

QuarterOrder ==
    <<<<0, 4, 8, 12>>, <<1, 5, 9, 13>>, <<2, 6, 10, 14>>, <<3, 7, 11, 15>>,
      <<0, 5, 10, 15>>, <<1, 6, 11, 12>>, <<2, 7, 8, 13>>, <<3, 4, 9, 14>>>>

QuarterAt(w, q) == quarter_round(q[1], q[2], q[3], q[4], Machine(w, <<>>)).state

\* w after n quarter rounds taken in QuarterOrder, starting with its i-th
RECURSIVE QuartersFrom(_, _, _)
QuartersFrom(w, n, i) ==
    IF n = 0
    THEN w
    ELSE Strict(w, QuartersFrom(QuarterAt(w, QuarterOrder[i]), n - 1, (i % 8) + 1))

SumMod32(x, y) ==
    U32(IF x.hi + y.hi + (IF x.lo + y.lo >= 65536 THEN 1 ELSE 0) >= 65536
        THEN x.hi + y.hi + (IF x.lo + y.lo >= 65536 THEN 1 ELSE 0) - 65536
        ELSE x.hi + y.hi + (IF x.lo + y.lo >= 65536 THEN 1 ELSE 0),
        IF x.lo + y.lo >= 65536 THEN x.lo + y.lo - 65536 ELSE x.lo + y.lo)

\* byte k (from 0) of the little-endian serialization of the words
SerializedByte(words, k) ==
    IF k % 4 = 0 THEN words[k \div 4].lo % 256
    ELSE IF k % 4 = 1 THEN words[k \div 4].lo \div 256
    ELSE IF k % 4 = 2 THEN words[k \div 4].hi % 256
    ELSE words[k \div 4].hi \div 256

FedForward(W, S) == [k \in 1..64 |-> SerializedByte([i \in 0..15 |-> SumMod32(W[i], S[i])], k - 1)]

StateWith(key, iv, c) ==
    [i \in 0..15 |->
        IF i < 4 THEN LittleEndianWord(ExpandBytes, i)
        ELSE IF i < 12 THEN LittleEndianWord(key, i - 4)
        ELSE IF i = 12 THEN LowHalf(c)
        ELSE IF i = 13 THEN HighHalf(c)
        ELSE LittleEndianWord(iv, i - 14)]

AlgorithmBlock(S, r) == FedForward(QuartersFrom(S, 8 * (r \div 2), 1), S)

AlgorithmBlocks ==
    [k \in TestKeyIv, r \in {8, 12, 20}, c \in TestCounters |->
        AlgorithmBlock(StateWith(k.key, k.iv, c), r)]

\* every quarter round rotates by 16 exactly once
QuarterRoundsRun(path) ==
    Cardinality({i \in 1..Len(path) : path[i][1] = "rotl" /\ path[i][3] = 16})

(***************************************************************************)
(* C9: the keystream block is the little-endian serialization, word by     *)
(* word, of W[i] + S[i] mod 2^32, S being the stored state with the call's *)
(* counter in words 12 and 13 and W being S after rounds / 2 double rounds *)
(* (four column quarter rounds, then four diagonal ones); a call runs      *)
(* exactly 4 * rounds quarter rounds.                                      *)
(***************************************************************************)
BlockAlgorithm ==
    Completed =>
        /\ engine[1].state = StateWith(args.key, args.iv, last.counter)
        /\ ObservedBlock = AlgorithmBlocks[[key |-> args.key, iv |-> args.iv],
                                           args.rounds, last.counter]
        /\ QuarterRoundsRun(last.path) = 4 * args.rounds

(***************************************************************************)
(* quarter_round's callers.                                                *)
(***************************************************************************)
\* most calls a caller makes on one array
MaxQuarterCalls == 2

\* the worked example of RFC 8439 2.1.1 in words 0, 4, 8, 12
ExampleColumn ==
    [i \in 0..(STATE_WORDS - 1) |->
        IF i = 0 THEN U32(4369, 4369)
        ELSE IF i = 4 THEN U32(258, 772)
        ELSE IF i = 8 THEN U32(39821, 28483)
        ELSE IF i = 12 THEN U32(291, 17767)
        ELSE U32(i, 65535 - i)]

\* the state of RFC 8439 2.2.1
ExampleState ==
    [i \in 0..(STATE_WORDS - 1) |->
        <<U32(34709, 12768), U32(50668, 62333), U32(20836, 25009), U32(51622, 12170),
          U32(17602, 3827), U32(13200, 44927), U32(55804, 26891), U32(10847, 29004),
          U32(21303, 10087), U32(45066, 22065), U32(38732, 21530), U32(13726, 39267),
          U32(23703, 4193), U32(15715, 5769), U32(8344, 55766), U32(37339, 54048)>>[i + 1]]

OnesState == [i \in 0..(STATE_WORDS - 1) |-> U32(65535, 65535)]

QuarterTestStates == {ExampleColumn, ExampleState, OnesState}

\* the index tuples of Block::rounds, four others, and one that repeats an index
QuarterTuples ==
    {QuarterOrder[i] : i \in 1..8}
        \cup {<<12, 8, 4, 0>>, <<15, 2, 9, 4>>, <<3, 2, 1, 0>>, <<13, 15, 0, 7>>,
              <<1, 1, 2, 3>>}

InitQuarter ==
    /\ debug_assertions = FALSE
    /\ engine = <<>>
    /\ args = NoArgs
    /\ output = <<>>
    /\ panicked = FALSE
    /\ last = NoCall
    /\ prev = NoCall
    /\ calls = 0
    /\ qstate \in QuarterTestStates
    /\ qcall = NoQCall

\* quarter_round(a, b, c, d, &mut qstate)
QuarterRound ==
    /\ qcall.n < MaxQuarterCalls
    /\ \E q \in QuarterTuples :
         /\ qstate' = quarter_round(q[1], q[2], q[3], q[4], Machine(qstate, <<>>)).state
         /\ qcall' = [a |-> q[1], b |-> q[2], c |-> q[3], d |-> q[4],
                      n |-> qcall.n + 1, before |-> qstate]
    /\ UNCHANGED <<debug_assertions, engine, args, output, panicked, last, prev, calls>>

NextQuarter == QuarterRound

SpecQuarter == InitQuarter /\ [][NextQuarter]_vars

Bits(w) ==
    [i \in 0..31 |->
        IF i < 16 THEN (w.lo \div (2 ^ i)) % 2 ELSE (w.hi \div (2 ^ (i - 16))) % 2]

RECURSIVE BitsValue(_, _, _)
BitsValue(x, from, n) ==
    IF n = 0 THEN 0 ELSE x[from] + (2 * BitsValue(x, from + 1, n - 1))

FromBits(x) == U32(BitsValue(x, 16, 16), BitsValue(x, 0, 16))

\* the carry into bit i of x + y
RECURSIVE CarryInto(_, _, _)
CarryInto(x, y, i) ==
    IF i = 0 THEN 0 ELSE (x[i - 1] + y[i - 1] + CarryInto(x, y, i - 1)) \div 2

\* x + y mod 2^32: the carry out of bit 31 is dropped
AddBits(x, y) ==
    Strict(<<x, y>>, [i \in 0..31 |-> (x[i] + y[i] + CarryInto(x, y, i)) % 2])

XorOfBits(x, y) == Strict(<<x, y>>, [i \in 0..31 |-> (x[i] + y[i]) % 2])

RotlBits(x, n) == Strict(x, [i \in 0..31 |-> x[(i + 32 - n) % 32]])

Quarter8(a, b, c, d) == <<a, RotlBits(XorOfBits(b, c), 7), c, d>>

Quarter7(a, b, c, d) == Quarter8(a, b, AddBits(c, d), d)

Quarter6(a, b, c, d) == Quarter7(a, b, c, RotlBits(XorOfBits(d, a), 8))

Quarter5(a, b, c, d) == Quarter6(AddBits(a, b), b, c, d)

Quarter4(a, b, c, d) == Quarter5(a, RotlBits(XorOfBits(b, c), 12), c, d)

Quarter3(a, b, c, d) == Quarter4(a, b, AddBits(c, d), d)

Quarter2(a, b, c, d) == Quarter3(a, b, c, RotlBits(XorOfBits(d, a), 16))

\* <<a, b, c, d>> after the twelve statements
QuarterOfBits(a, b, c, d) == Quarter2(AddBits(a, b), b, c, d)

DistinctIndices ==
    Cardinality({qcall.a, qcall.b, qcall.c, qcall.d}) = 4

QuarterExpected ==
    QuarterOfBits(Bits(qcall.before[qcall.a]), Bits(qcall.before[qcall.b]),
                  Bits(qcall.before[qcall.c]), Bits(qcall.before[qcall.d]))

(***************************************************************************)
(* C10: on four pairwise distinct indices quarter_round computes           *)
(* a += b; d ^= a; d <<<= 16; c += d; b ^= c; b <<<= 12; a += b; d ^= a;   *)
(* d <<<= 8; c += d; b ^= c; b <<<= 7 with every sum taken mod 2^32, every *)
(* word staying in 0 .. 2^32 - 1, and the other twelve words unchanged.    *)
(* The arithmetic is redone here on 32-bit vectors, bit 0 first.           *)
(***************************************************************************)
QuarterRoundArithmetic ==
    (qcall.n > 0 /\ DistinctIndices) =>
        /\ qstate[qcall.a] = FromBits(QuarterExpected[1])
        /\ qstate[qcall.b] = FromBits(QuarterExpected[2])
        /\ qstate[qcall.c] = FromBits(QuarterExpected[3])
        /\ qstate[qcall.d] = FromBits(QuarterExpected[4])
        /\ \A i \in 0..15 : InRange(qstate[i])
        /\ \A i \in (0..15) \ {qcall.a, qcall.b, qcall.c, qcall.d} :
               qstate[i] = qcall.before[i]

\* RFC 8439 2.2.1: quarter_round(2, 7, 8, 13) on its state
QuarterExampleSeen ==
    /\ qcall.n = 1
    /\ qcall.before = ExampleState
    /\ <<qcall.a, qcall.b, qcall.c, qcall.d>> = <<2, 7, 8, 13>>
    /\ qstate[2] = U32(48568, 34524)
    /\ qstate[7] = U32(53164, 45010)
    /\ qstate[8] = U32(58475, 60032)
    /\ qstate[13] = U32(52416, 31865)

\* RFC 8439 2.1.1: quarter_round(0, 4, 8, 12) on its four words
QuarterColumnSeen ==
    /\ qcall.n = 1
    /\ qcall.before = ExampleColumn
    /\ <<qcall.a, qcall.b, qcall.c, qcall.d>> = <<0, 4, 8, 12>>
    /\ qstate[0] = U32(59946, 37620)
    /\ qstate[4] = U32(51996, 63694)
    /\ qstate[8] = U32(17793, 18222)
    /\ qstate[12] = U32(22657, 50363)

====
